---- MODULE Spec2Model ----
(***************************************************************************)
(* Model of the loan decision and bias-audit engine of                     *)
(* src/submission/loan_agent.py (class LoanApprovalAnalyzer).              *)
(*                                                                         *)
(* Numbers.  Incomes, debts, scores and ages are integers.  A debt-to-     *)
(* income ratio is the value debt/income, kept as the reduced fraction     *)
(* [num, den]; comparisons with the decimal thresholds 0.30, 0.35 and 0.40 *)
(* are done by cross-multiplication.  For the bounded integer inputs used  *)
(* here the IEEE double quotient compares with the double literals exactly *)
(* as the rational does (a disagreement needs an income above 10^15).      *)
(*                                                                         *)
(* Exceptions.  A call returns Ok(value) or Err(exception class, message); *)
(* a message is the sequence of the parts the code concatenates.           *)
(***************************************************************************)
EXTENDS Integers, Sequences, FiniteSets, TLC

VARIABLES decisions_log, evaluated, last, hashOrder, threads

vars == <<decisions_log, evaluated, last, hashOrder, threads>>

----------------------------------------------------------------------------
(* Bounds of the model *)

MaxLog == 3
MaxBatch == 3
NumThreads == 2

----------------------------------------------------------------------------
(* Enumerations and class constants *)

APPROVED == "APPROVED"
CONDITIONAL_APPROVAL == "CONDITIONAL_APPROVAL"
DENIED == "DENIED"
DecisionType == {APPROVED, CONDITIONAL_APPROVAL, DENIED}

POOR == "Poor"
FAIR == "Fair"
GOOD == "Good"
VERY_GOOD == "Very Good"
EXCELLENT == "Excellent"
CreditScoreBand == {POOR, FAIR, GOOD, VERY_GOOD, EXCELLENT}

\* 0.30, in per cent
DTI_THRESHOLD == 30
MIN_CREDIT_SCORE == 650

\* mutant: the Fair range starts one point late
CREDIT_SCORE_BANDS_gap ==
    << [min_score |-> 0,   max_score |-> 579, band |-> POOR],
       [min_score |-> 581, max_score |-> 669, band |-> FAIR],
       [min_score |-> 670, max_score |-> 739, band |-> GOOD],
       [min_score |-> 740, max_score |-> 799, band |-> VERY_GOOD],
       [min_score |-> 800, max_score |-> 850, band |-> EXCELLENT] >>

\* the dict literal, in its insertion order
CREDIT_SCORE_BANDS ==
    << [min_score |-> 0,   max_score |-> 579, band |-> POOR],
       [min_score |-> 580, max_score |-> 669, band |-> FAIR],
       [min_score |-> 670, max_score |-> 739, band |-> GOOD],
       [min_score |-> 740, max_score |-> 799, band |-> VERY_GOOD],
       [min_score |-> 800, max_score |-> 850, band |-> EXCELLENT] >>

----------------------------------------------------------------------------
(* Results and exceptions *)

Ok(v) == [ok |-> TRUE, val |-> v]
Err(exc, msg) == [ok |-> FALSE, exc |-> exc, msg |-> msg]

ValueError(text) == Err("ValueError", <<text>>)
\* str(KeyError(k)) is the repr of the key
KeyError(key) == Err("KeyError", <<"'", key, "'">>)

----------------------------------------------------------------------------
(* Applicant dictionaries: `fields` is the set of keys the dict has *)

AllFields == {"name", "income", "credit_score", "debt", "age"}

Applicant(name, income, credit_score, debt, age) ==
    [name |-> name, income |-> income, credit_score |-> credit_score,
     debt |-> debt, age |-> age, fields |-> AllFields]

Without(applicant, key) == [applicant EXCEPT !.fields = @ \ {key}]

\* applicant.get(key, default)
Get(applicant, key, default) ==
    IF key \in applicant.fields THEN applicant[key] ELSE default

\* applicant[key]
Item(applicant, key) ==
    IF key \in applicant.fields THEN Ok(applicant[key]) ELSE KeyError(key)

----------------------------------------------------------------------------
(* Ratios *)

RECURSIVE GCD(_, _)
GCD(a, b) == IF b = 0 THEN a ELSE GCD(b, a % b)

\* mutant: the ratio is clamped to 1
Quotient_clamped(debt, income) ==
    IF debt > income THEN [num |-> 1, den |-> 1]
    ELSE LET g == GCD(debt, income)
         IN  [num |-> debt \div g, den |-> income \div g]

\* the value debt / income, income > 0 and debt >= 0
Quotient(debt, income) ==
    LET g == GCD(debt, income)
    IN  [num |-> debt \div g, den |-> income \div g]

\* mutant: a ratio equal to the threshold counts as above it
RatioGreater_orEqual(ratio, pct) == ratio.num * 100 >= pct * ratio.den

\* ratio < pct/100 and ratio > pct/100
RatioLess(ratio, pct) == ratio.num * 100 < pct * ratio.den
RatioGreater(ratio, pct) == ratio.num * 100 > pct * ratio.den

\* the digits of f"{ratio:.1%}": the ratio in tenths of a per cent,
\* rounded to nearest, ties to even
FormatPercent1(ratio) ==
    LET n == ratio.num * 1000
        q == n \div ratio.den
        r == n % ratio.den
    IN  IF 2 * r < ratio.den THEN q
        ELSE IF 2 * r > ratio.den THEN q + 1
        ELSE IF q % 2 = 0 THEN q ELSE q + 1

----------------------------------------------------------------------------
(* Metric calculator *)

calculate_debt_to_income_ratio(income, debt) ==
    IF income <= 0 THEN ValueError("Income must be positive")
    ELSE IF debt < 0 THEN ValueError("Debt cannot be negative")
    ELSE Ok(Quotient(debt, income))

\* the for loop over CREDIT_SCORE_BANDS.items(), from entry i on
RECURSIVE BandLookup(_, _)
BandLookup(credit_score, i) ==
    IF i > Len(CREDIT_SCORE_BANDS)
    THEN ValueError("Credit score categorization failed")
    ELSE IF /\ CREDIT_SCORE_BANDS[i].min_score <= credit_score
            /\ credit_score <= CREDIT_SCORE_BANDS[i].max_score
         THEN Ok(CREDIT_SCORE_BANDS[i].band)
         ELSE BandLookup(credit_score, i + 1)

get_credit_score_band(credit_score) ==
    IF ~(300 <= credit_score /\ credit_score <= 850)
    THEN ValueError("Credit score must be between 300 and 850")
    ELSE BandLookup(credit_score, 1)

----------------------------------------------------------------------------
(* Bias flag detector *)

AGE_BIAS_RISK == "AGE_BIAS_RISK: Young applicant denial - verify decision not age-based"
INCOME_BIAS_RISK == "INCOME_BIAS_RISK: Lower-income denial - ensure decision based on DTI, not absolute income"
CREDIT_SCORE_LIMITATION == "CREDIT_SCORE_LIMITATION: Fair credit score != inability to repay - consider full financial picture"
MULTIPLE_BIAS_INDICATORS == "MULTIPLE_BIAS_INDICATORS: Decision requires human oversight for fairness review"

AllBiasFlags ==
    {AGE_BIAS_RISK, INCOME_BIAS_RISK, CREDIT_SCORE_LIMITATION, MULTIPLE_BIAS_INDICATORS}

\* mutant: every flag raised so far counts towards the escalation
ContainsBiasRisk_any(f) == f \in AllBiasFlags

\* 'BIAS_RISK' in f, for the four flag texts (the source's U+2260 sign is
\* written != above)
ContainsBiasRisk(f) == f \in {AGE_BIAS_RISK, INCOME_BIAS_RISK}

AppendIf(cond, seq, x) == IF cond THEN Append(seq, x) ELSE seq

\* mutant: the age check is left out when the dict has no age
detect_potential_bias_agerequired(applicant, decision) ==
    LET f1 == AppendIf("age" \in applicant.fields /\ applicant.age < 35
                           /\ decision = DENIED, <<>>, AGE_BIAS_RISK)
        income == Get(applicant, "income", 0)
        f2 == AppendIf(income < 50000 /\ decision = DENIED, f1, INCOME_BIAS_RISK)
        credit_score == Get(applicant, "credit_score", 0)
        f3 == AppendIf(580 <= credit_score /\ credit_score < 650, f2,
                       CREDIT_SCORE_LIMITATION)
        risky == SelectSeq(f3, ContainsBiasRisk)
    IN  AppendIf(decision = DENIED /\ Len(risky) >= 2, f3, MULTIPLE_BIAS_INDICATORS)

detect_potential_bias(applicant, decision) ==
    LET age == Get(applicant, "age", 0)
        f1 == AppendIf(age < 35 /\ decision = DENIED, <<>>, AGE_BIAS_RISK)
        income == Get(applicant, "income", 0)
        f2 == AppendIf(income < 50000 /\ decision = DENIED, f1, INCOME_BIAS_RISK)
        credit_score == Get(applicant, "credit_score", 0)
        f3 == AppendIf(580 <= credit_score /\ credit_score < 650, f2,
                       CREDIT_SCORE_LIMITATION)
        risky == SelectSeq(f3, ContainsBiasRisk)
    IN  AppendIf(decision = DENIED /\ Len(risky) >= 2, f3, MULTIPLE_BIAS_INDICATORS)

----------------------------------------------------------------------------
(* Risk assessor: a factor is its text and the values formatted into it *)

RiskFactor(text, values) == [text |-> text, values |-> values]

\* mutant: the high ratio factor is tied to 0.35, the threshold of the
\* conditional approval, and not to DTI_THRESHOLD
assess_risk_factors_lenient(applicant, dti_ratio, credit_band) ==
    LET r1 == AppendIf(RatioGreater(dti_ratio, 35), <<>>,
                  RiskFactor("High debt-to-income ratio",
                             <<FormatPercent1(dti_ratio), DTI_THRESHOLD>>))
        r2 == AppendIf(applicant.credit_score < MIN_CREDIT_SCORE, r1,
                  RiskFactor("Credit score below minimum",
                             <<applicant.credit_score, MIN_CREDIT_SCORE>>))
        r3 == AppendIf(credit_band = POOR, r2,
                  RiskFactor("Poor credit history indicates elevated default risk", <<>>))
    IN  AppendIf(RatioGreater(dti_ratio, 40), r3,
                  RiskFactor("Extremely high debt burden may impact repayment capacity", <<>>))

\* mutant: the four checks form an if/elif chain
assess_risk_factors_chained(applicant, dti_ratio, credit_band) ==
    IF RatioGreater(dti_ratio, DTI_THRESHOLD)
    THEN <<RiskFactor("High debt-to-income ratio",
                      <<FormatPercent1(dti_ratio), DTI_THRESHOLD>>)>>
    ELSE IF applicant.credit_score < MIN_CREDIT_SCORE
    THEN <<RiskFactor("Credit score below minimum",
                      <<applicant.credit_score, MIN_CREDIT_SCORE>>)>>
    ELSE IF credit_band = POOR
    THEN <<RiskFactor("Poor credit history indicates elevated default risk", <<>>)>>
    ELSE IF RatioGreater(dti_ratio, 40)
    THEN <<RiskFactor("Extremely high debt burden may impact repayment capacity", <<>>)>>
    ELSE <<>>

\* applicant has the key credit_score (the caller has read it before)
assess_risk_factors(applicant, dti_ratio, credit_band) ==
    LET r1 == AppendIf(RatioGreater(dti_ratio, DTI_THRESHOLD), <<>>,
                  RiskFactor("High debt-to-income ratio",
                             <<FormatPercent1(dti_ratio), DTI_THRESHOLD>>))
        r2 == AppendIf(applicant.credit_score < MIN_CREDIT_SCORE, r1,
                  RiskFactor("Credit score below minimum",
                             <<applicant.credit_score, MIN_CREDIT_SCORE>>))
        r3 == AppendIf(credit_band = POOR, r2,
                  RiskFactor("Poor credit history indicates elevated default risk", <<>>))
    IN  AppendIf(RatioGreater(dti_ratio, 40), r3,
                  RiskFactor("Extremely high debt burden may impact repayment capacity", <<>>))

----------------------------------------------------------------------------
(* Decision engine *)

\* mutant: the 0.35 rule is tried before the approval rule
DecisionRules_reordered(dti_ratio, credit_score) ==
    LET meets_dti_threshold == RatioLess(dti_ratio, DTI_THRESHOLD)
        meets_credit_threshold == credit_score >= MIN_CREDIT_SCORE
    IN  IF meets_credit_threshold /\ RatioLess(dti_ratio, 35)
        THEN CONDITIONAL_APPROVAL
        ELSE IF meets_dti_threshold /\ meets_credit_threshold THEN APPROVED
        ELSE IF meets_dti_threshold /\ credit_score >= 620
             THEN CONDITIONAL_APPROVAL
        ELSE DENIED

\* the rules of lines 171-183 on the computed ratio and the score
DecisionRules(dti_ratio, credit_score) ==
    LET meets_dti_threshold == RatioLess(dti_ratio, DTI_THRESHOLD)
        meets_credit_threshold == credit_score >= MIN_CREDIT_SCORE
    IN  IF meets_dti_threshold /\ meets_credit_threshold THEN APPROVED
        ELSE IF meets_credit_threshold /\ RatioLess(dti_ratio, 35)
             THEN CONDITIONAL_APPROVAL
        ELSE IF meets_dti_threshold /\ credit_score >= 620
             THEN CONDITIONAL_APPROVAL
        ELSE DENIED

make_loan_decision(applicant) ==
    LET income == Item(applicant, "income")
        debt == Item(applicant, "debt")
        score == Item(applicant, "credit_score")
    IN  IF ~income.ok THEN income
        ELSE IF ~debt.ok THEN debt
        ELSE LET dti == calculate_debt_to_income_ratio(income.val, debt.val)
             IN  IF ~dti.ok THEN dti
                 ELSE IF ~score.ok THEN score
                 ELSE LET band == get_credit_score_band(score.val)
                      IN  IF ~band.ok THEN band
                          ELSE Ok(DecisionRules(dti.val, score.val))

----------------------------------------------------------------------------
(* Explanation generator: the template's variable parts *)

generate_decision_explanation(applicant, decision, dti_ratio, credit_band, risk_factors) ==
    LET base == [dti |-> FormatPercent1(dti_ratio),
                 credit_score |-> applicant.credit_score,
                 band |-> credit_band]
    IN  IF decision = APPROVED
        THEN [head |-> "APPROVED", base |-> base,
              tail |-> "Meets all standard lending criteria.",
              risk_summary |-> <<>>]
        ELSE IF decision = CONDITIONAL_APPROVAL
        THEN [head |-> "CONDITIONAL APPROVAL", base |-> base,
              tail |-> "Requires additional verification or terms adjustment.",
              risk_summary |-> <<>>]
        ELSE [head |-> "DENIED", base |-> base,
              tail |-> "Risk factors:",
              risk_summary |->
                  IF risk_factors # <<>> THEN risk_factors
                  ELSE <<RiskFactor("Multiple risk factors identified", <<>>)>>]

----------------------------------------------------------------------------
(* Evaluator *)

LoanDecision(applicant_name, decision, dti_ratio, credit_band, explanation, bias_flags, risk_factors) ==
    [applicant_name |-> applicant_name,
     decision |-> decision,
     debt_to_income_ratio |-> dti_ratio,
     credit_score_band |-> credit_band,
     explanation |-> explanation,
     bias_flags |-> bias_flags,
     risk_factors |-> risk_factors]

\* mutant: the exception is re-raised as it is
Wrap_bare(applicant, e) == e

\* the except clause: the exception e becomes a ValueError naming the applicant
Wrap(applicant, e) ==
    Err("ValueError",
        <<"Error evaluating applicant ", Get(applicant, "name", "Unknown"), ": ">>
            \o e.msg)

\* the try block up to the construction of the record
BuildDecision(applicant) ==
    LET income == Item(applicant, "income")
        debt == Item(applicant, "debt")
        score == Item(applicant, "credit_score")
        name == Item(applicant, "name")
    IN  IF ~income.ok THEN income
        ELSE IF ~debt.ok THEN debt
        ELSE LET dti == calculate_debt_to_income_ratio(income.val, debt.val)
             IN  IF ~dti.ok THEN dti
                 ELSE IF ~score.ok THEN score
                 ELSE LET band == get_credit_score_band(score.val)
                          decision == make_loan_decision(applicant)
                      IN  IF ~band.ok THEN band
                          ELSE IF ~decision.ok THEN decision
                          ELSE LET risk_factors ==
                                       assess_risk_factors(applicant, dti.val, band.val)
                                   bias_flags ==
                                       detect_potential_bias(applicant, decision.val)
                                   explanation ==
                                       generate_decision_explanation(applicant,
                                           decision.val, dti.val, band.val, risk_factors)
                               IN  IF ~name.ok THEN name
                                   ELSE Ok(LoanDecision(name.val, decision.val,
                                               dti.val, band.val, explanation,
                                               bias_flags, risk_factors))

\* mutant: the record is returned without being logged
evaluate_applicant_unlogged(log, applicant) ==
    LET built == BuildDecision(applicant)
    IN  IF built.ok
        THEN [log |-> log, result |-> Ok(built.val)]
        ELSE [log |-> log, result |-> Wrap(applicant, built)]

\* mutant: a failed evaluation is logged as a denial before the error is raised
evaluate_applicant_logsfailure(log, applicant) ==
    LET built == BuildDecision(applicant)
        rejected ==
            LoanDecision(Get(applicant, "name", "Unknown"), DENIED,
                         [num |-> 0, den |-> 1], POOR,
                         [head |-> "DENIED",
                          base |-> [dti |-> 0, credit_score |-> 0, band |-> POOR],
                          tail |-> "Risk factors:", risk_summary |-> <<>>],
                         <<>>, <<>>)
    IN  IF built.ok
        THEN [log |-> Append(log, built.val), result |-> Ok(built.val)]
        ELSE [log |-> Append(log, rejected), result |-> Wrap(applicant, built)]

\* the log after the call and what the call returns or raises
evaluate_applicant(log, applicant) ==
    LET built == BuildDecision(applicant)
    IN  IF built.ok
        THEN [log |-> Append(log, built.val), result |-> Ok(built.val)]
        ELSE [log |-> log, result |-> Wrap(applicant, built)]

\* the for loop: `decisions` is the local list, `rest` the applicants to come
RECURSIVE BatchLoop(_, _, _)
BatchLoop(log, decisions, rest) ==
    IF rest = <<>>
    THEN [log |-> log, decisions |-> decisions, result |-> Ok(decisions)]
    ELSE LET r == evaluate_applicant(log, Head(rest))
         IN  IF r.result.ok
             THEN BatchLoop(r.log, Append(decisions, r.result.val), Tail(rest))
             ELSE [log |-> r.log, decisions |-> decisions, result |-> r.result]

\* mutant: a batch that fails takes its decisions out of the log again
process_applicant_batch_rollback(log, applicants) ==
    LET r == BatchLoop(log, <<>>, applicants)
    IN  IF r.result.ok THEN r ELSE [r EXCEPT !.log = log]

\* mutant: the applicants are taken last to first
process_applicant_batch_reversed(log, applicants) ==
    BatchLoop(log, <<>>,
              [i \in 1..Len(applicants) |-> applicants[Len(applicants) + 1 - i]])

\* mutant: an applicant that fails is skipped and the loop goes on
RECURSIVE BatchLoop_skipping(_, _, _)
BatchLoop_skipping(log, decisions, rest) ==
    IF rest = <<>>
    THEN [log |-> log, decisions |-> decisions, result |-> Ok(decisions)]
    ELSE LET r == evaluate_applicant(log, Head(rest))
         IN  IF r.result.ok
             THEN BatchLoop_skipping(r.log, Append(decisions, r.result.val), Tail(rest))
             ELSE BatchLoop_skipping(log, decisions, Tail(rest))

process_applicant_batch_skipping(log, applicants) ==
    BatchLoop_skipping(log, <<>>, applicants)

process_applicant_batch(log, applicants) == BatchLoop(log, <<>>, applicants)

----------------------------------------------------------------------------
(* Audit report *)

\* mutant: the count of a key seen before is set to 1 again
DictIncrement_reset(d, k) ==
    IF \E i \in 1..Len(d) : d[i].key = k
    THEN [i \in 1..Len(d) |->
             IF d[i].key = k THEN [d[i] EXCEPT !.count = 1] ELSE d[i]]
    ELSE Append(d, [key |-> k, count |-> 1])

\* d[k] = d.get(k, 0) + 1 on a dict kept as its items in insertion order
DictIncrement(d, k) ==
    IF \E i \in 1..Len(d) : d[i].key = k
    THEN [i \in 1..Len(d) |->
             IF d[i].key = k THEN [d[i] EXCEPT !.count = @ + 1] ELSE d[i]]
    ELSE Append(d, [key |-> k, count |-> 1])

\* the first loop over the log, from entry i on
RECURSIVE CountDecisions(_, _, _)
CountDecisions(log, i, decision_counts) ==
    IF i > Len(log) THEN decision_counts
    ELSE CountDecisions(log, i + 1, DictIncrement(decision_counts, log[i].decision))

\* the second loop: all_bias_flags.extend(decision.bias_flags)
RECURSIVE CollectBiasFlags(_, _, _)
CollectBiasFlags(log, i, all_bias_flags) ==
    IF i > Len(log) THEN all_bias_flags
    ELSE CollectBiasFlags(log, i + 1, all_bias_flags \o log[i].bias_flags)

\* all_bias_flags.count(flag)
Count(seq, x) == Cardinality({i \in 1..Len(seq) : seq[i] = x})

\* iteration over set(seq): the str hashes of the process, not the order
\* of insertion, place the elements; `order` is the placement of this process
SetIteration(seq, order) ==
    SelectSeq(order, LAMBDA f : \E i \in 1..Len(seq) : seq[i] = f)

generate_audit_report(log, order) ==
    IF log = <<>>
    THEN [text |-> "No decisions recorded for audit.",
          decision_summary |-> <<>>,
          bias_section |-> FALSE, bias_total |-> 0, bias_lines |-> <<>>]
    ELSE LET decision_counts == CountDecisions(log, 1, <<>>)
             all_bias_flags == CollectBiasFlags(log, 1, <<>>)
             unique_flags == SetIteration(all_bias_flags, order)
         IN  [text |-> "=== LOAN APPROVAL AUDIT REPORT ===",
              decision_summary |-> decision_counts,
              bias_section |-> all_bias_flags # <<>>,
              bias_total |-> Len(all_bias_flags),
              bias_lines |->
                  [i \in 1..Len(unique_flags) |->
                      [key |-> unique_flags[i],
                       count |-> Count(all_bias_flags, unique_flags[i])]]]

----------------------------------------------------------------------------
(* Inputs *)

\* the module-level dataset `applicants`
Alice == Applicant("Alice", 62000, 710, 22000, 33)
Bob == Applicant("Bob", 45000, 640, 18000, 41)
Carol == Applicant("Carol", 38000, 580, 25000, 29)

Dave == Applicant("Dave", 100000, 700, 20000, 45)
Erin == Applicant("Erin", 100000, 630, 20000, 30)
Frank == Without(Applicant("Frank", 40000, 700, 30000, 0), "age")

ValidApplicants == {Bob, Carol, Dave, Erin, Frank}

InvalidApplicants ==
    { Applicant("Gus", 0, 640, 18000, 41),
      Applicant("Gus", -1000, 640, 18000, 41),
      Applicant("Hal", 45000, 640, -1, 41),
      Applicant("Ivy", 45000, 299, 18000, 41),
      Applicant("Ivy", 45000, 851, 18000, 41),
      Applicant("Jo", 0, 299, -1, 41),
      Applicant("Jo", 45000, 851, -1, 41) }

IncompleteApplicants ==
    { Without(Bob, "income"), Without(Bob, "debt"),
      Without(Bob, "credit_score"), Without(Bob, "name") }

EvalApplicants == ValidApplicants \cup InvalidApplicants \cup IncompleteApplicants

BatchApplicants == { Carol, Dave, Applicant("Ivy", 45000, 851, 18000, 41) }

Batches == UNION { [1..n -> BatchApplicants] : n \in 0..MaxBatch }

Incomes == {-1000, 0, 1, 38000, 45000, 49999, 50000, 62000, 100000}
Debts == {-1, 0, 18000, 20000, 22000, 25000, 29999, 30000, 34999, 35000,
          40000, 40001, 150000}
Scores == 290..860
RuleScores == {299, 300, 579, 580, 619, 620, 649, 650, 700, 710, 850, 851}
Ages == {0, 29, 34, 35, 41}

DecisionApplicants ==
    { Applicant("P", i, s, d, 40) : i \in Incomes, s \in RuleScores, d \in Debts }

\* calls of assess_risk_factors: the band is an argument of its own
RiskCalls ==
    { <<Applicant("R", 100000, s, d, a), Quotient(d, 100000), b>> :
          s \in {579, 649, 650, 700},
          d \in {0, 20000, 30000, 34999, 40000, 40001, 150000},
          a \in {29, 41}, b \in CreditScoreBand }

BiasApplicants ==
    LET full == { Applicant("Q", i, s, 20000, a) :
                    i \in {38000, 49999, 50000}, s \in {579, 580, 649, 650},
                    a \in Ages }
    IN  full \cup { Without(q, "age") : q \in full }

----------------------------------------------------------------------------
(* State machine: one analyzer, its callers one at a time *)

\* the record of the latest call: `pre` is the log when it was made
Call(op, args, result) ==
    [op |-> op, args |-> args, done |-> TRUE, result |-> result,
     pre |-> decisions_log]

\* set(all_bias_flags) is walked in the order of the slots the str hashes
\* give, which the hash seed of the process decides; any of the 24 orders of
\* the four flags can result, and these four seeds stand for them
HashOrders ==
    { <<AGE_BIAS_RISK, INCOME_BIAS_RISK, CREDIT_SCORE_LIMITATION,
        MULTIPLE_BIAS_INDICATORS>>,
      <<MULTIPLE_BIAS_INDICATORS, CREDIT_SCORE_LIMITATION, INCOME_BIAS_RISK,
        AGE_BIAS_RISK>>,
      <<CREDIT_SCORE_LIMITATION, AGE_BIAS_RISK, MULTIPLE_BIAS_INDICATORS,
        INCOME_BIAS_RISK>>,
      <<INCOME_BIAS_RISK, MULTIPLE_BIAS_INDICATORS, AGE_BIAS_RISK,
        CREDIT_SCORE_LIMITATION>> }

\* the callers' threads; one that is in no call of evaluate_applicant:
\* `decision` is the local loan_decision, `floor` the length of the log and
\* `seen` the number of evaluations that had returned when the call was
\* made, `pos` the place its append gave the record
Threads == 1..NumThreads

IdleThread == [pc |-> "idle", decision |-> <<>>, floor |-> 0, seen |-> 0, pos |-> 0]

\* LoanApprovalAnalyzer(): an empty log, in a process with some hash seed
Init ==
    /\ decisions_log = <<>>
    /\ evaluated = <<>>
    /\ last = [op |-> "__init__", args |-> <<>>, done |-> TRUE,
               result |-> Ok(<<>>), pre |-> <<>>]
    /\ hashOrder \in HashOrders
    /\ threads = [t \in Threads |-> IdleThread]

Evaluate ==
    \E applicant \in EvalApplicants :
        /\ Len(decisions_log) < MaxLog
        /\ LET r == evaluate_applicant(decisions_log, applicant)
           IN  /\ decisions_log' = r.log
               /\ evaluated' = IF r.result.ok THEN Append(evaluated, r.result.val)
                               ELSE evaluated
               /\ last' = Call("evaluate_applicant", <<applicant>>, r.result)
        /\ UNCHANGED <<hashOrder, threads>>

Batch ==
    \E applicants \in Batches :
        /\ Len(decisions_log) + Len(applicants) <= MaxLog
        /\ LET r == process_applicant_batch(decisions_log, applicants)
           IN  /\ decisions_log' = r.log
               /\ evaluated' = evaluated \o r.decisions
               /\ last' = Call("process_applicant_batch", <<applicants>>, r.result)
        /\ UNCHANGED <<hashOrder, threads>>

AuditReport ==
    /\ last' = Call("generate_audit_report", <<>>,
                    Ok(generate_audit_report(decisions_log, hashOrder)))
    /\ UNCHANGED <<decisions_log, evaluated, hashOrder, threads>>

Next == Evaluate \/ Batch \/ AuditReport

Spec == Init /\ [][Next]_vars

----------------------------------------------------------------------------
(* Several threads calling evaluate_applicant on one analyzer.  A call     *)
(* touches the shared log in one statement, the append of line 249; the    *)
(* try block before it works on locals, and a call that raises never       *)
(* reaches the log.  list.append is one call into the interpreter and is   *)
(* atomic with respect to other threads.                                   *)

ConcApplicants == { Carol, Dave, Applicant("Ivy", 45000, 851, 18000, 41) }

InitConc ==
    /\ decisions_log = <<>>
    /\ evaluated = <<>>
    /\ last = [op |-> "__init__", args |-> <<>>, done |-> TRUE,
               result |-> Ok(<<>>), pre |-> <<>>]
    /\ hashOrder = <<AGE_BIAS_RISK, INCOME_BIAS_RISK, CREDIT_SCORE_LIMITATION,
                     MULTIPLE_BIAS_INDICATORS>>
    /\ threads = [t \in Threads |-> IdleThread]

InCall == { t \in Threads : threads[t].pc # "idle" }

\* mutant: the thread writes back the list as it was when the call was made,
\* with its record added
AppendStep_stale(log, th) == Append(SubSeq(log, 1, th.floor), th.decision)

\* self.decisions_log.append(loan_decision) by the thread th
AppendStep(log, th) == Append(log, th.decision)

\* lines 221-247: the record is built, or the call raises
ThreadCall(t) ==
    \E applicant \in ConcApplicants :
        /\ threads[t].pc = "idle"
        /\ Len(decisions_log) + Cardinality(InCall) < MaxLog
        /\ LET built == BuildDecision(applicant)
           IN  IF built.ok
               THEN /\ threads' = [threads EXCEPT ![t] =
                                      [pc |-> "built", decision |-> built.val,
                                       floor |-> Len(decisions_log),
                                       seen |-> Len(evaluated), pos |-> 0]]
                    /\ last' = Call("ThreadCall", <<t, applicant>>, Ok(<<>>))
               ELSE /\ threads' = threads
                    /\ last' = Call("ThreadCall", <<t, applicant>>,
                                    Wrap(applicant, built))
        /\ UNCHANGED <<decisions_log, evaluated, hashOrder>>

\* line 249
ThreadAppend(t) ==
    /\ threads[t].pc = "built"
    /\ decisions_log' = AppendStep(decisions_log, threads[t])
    /\ threads' = [threads EXCEPT ![t].pc = "appended",
                                  ![t].pos = Len(decisions_log')]
    /\ last' = Call("ThreadAppend", <<t>>, Ok(<<>>))
    /\ UNCHANGED <<evaluated, hashOrder>>

\* line 250
ThreadReturn(t) ==
    /\ threads[t].pc = "appended"
    /\ evaluated' = Append(evaluated, threads[t].decision)
    /\ threads' = [threads EXCEPT ![t] = IdleThread]
    /\ last' = Call("ThreadReturn", <<t>>, Ok(threads[t].decision))
    /\ UNCHANGED <<decisions_log, hashOrder>>

NextConc ==
    \E t \in Threads : ThreadCall(t) \/ ThreadAppend(t) \/ ThreadReturn(t)

SpecConc == InitConc /\ [][NextConc]_vars

----------------------------------------------------------------------------
(* Single calls, the pure functions on their own and one evaluation on a   *)
(* fresh analyzer: the initial state holds the call and its arguments, the *)
(* action carries it out                                                   *)

Pending(op, args) ==
    [op |-> op, args |-> args, done |-> FALSE, result |-> Ok(<<>>), pre |-> <<>>]

PureCalls ==
    { Pending("calculate_debt_to_income_ratio", <<income, debt>>) :
          income \in Incomes, debt \in Debts }
    \cup { Pending("get_credit_score_band", <<credit_score>>) :
          credit_score \in Scores }
    \cup { Pending("make_loan_decision", <<applicant>>) :
          applicant \in DecisionApplicants }
    \cup { Pending("detect_potential_bias", <<applicant, decision>>) :
          applicant \in BiasApplicants, decision \in DecisionType }
    \cup { Pending("assess_risk_factors", call) : call \in RiskCalls }
    \cup { Pending("evaluate_applicant", <<applicant>>) :
          applicant \in DecisionApplicants
                          \cup { Without(p, "age") : p \in DecisionApplicants } }

InitPure ==
    /\ decisions_log = <<>>
    /\ evaluated = <<>>
    /\ last \in PureCalls
    /\ hashOrder = <<AGE_BIAS_RISK, INCOME_BIAS_RISK, CREDIT_SCORE_LIMITATION,
                     MULTIPLE_BIAS_INDICATORS>>
    /\ threads = [t \in Threads |-> IdleThread]

Todo(op) == last.op = op /\ ~last.done

CallRatio ==
    /\ Todo("calculate_debt_to_income_ratio")
    /\ last' = Call(last.op, last.args,
                    calculate_debt_to_income_ratio(last.args[1], last.args[2]))
    /\ UNCHANGED <<decisions_log, evaluated, hashOrder, threads>>

CallBand ==
    /\ Todo("get_credit_score_band")
    /\ last' = Call(last.op, last.args, get_credit_score_band(last.args[1]))
    /\ UNCHANGED <<decisions_log, evaluated, hashOrder, threads>>

CallDecision ==
    /\ Todo("make_loan_decision")
    /\ last' = Call(last.op, last.args, make_loan_decision(last.args[1]))
    /\ UNCHANGED <<decisions_log, evaluated, hashOrder, threads>>

CallBias ==
    /\ Todo("detect_potential_bias")
    /\ last' = Call(last.op, last.args,
                    Ok(detect_potential_bias(last.args[1], last.args[2])))
    /\ UNCHANGED <<decisions_log, evaluated, hashOrder, threads>>

CallRisk ==
    /\ Todo("assess_risk_factors")
    /\ last' = Call(last.op, last.args,
                    Ok(assess_risk_factors(last.args[1], last.args[2], last.args[3])))
    /\ UNCHANGED <<decisions_log, evaluated, hashOrder, threads>>

\* one evaluation on a fresh analyzer
CallEvaluate ==
    /\ Todo("evaluate_applicant")
    /\ LET r == evaluate_applicant(decisions_log, last.args[1])
       IN  /\ decisions_log' = r.log
           /\ evaluated' = IF r.result.ok THEN Append(evaluated, r.result.val)
                           ELSE evaluated
           /\ last' = Call(last.op, last.args, r.result)
    /\ UNCHANGED <<hashOrder, threads>>

NextPure ==
    CallRatio \/ CallBand \/ CallDecision \/ CallBias \/ CallRisk \/ CallEvaluate

SpecPure == InitPure /\ [][NextPure]_vars

----------------------------------------------------------------------------
(* Properties of the pure functions, under SpecPure *)

Done(op) == last.op = op /\ last.done

\* C1: for every valid applicant (income > 0, debt >= 0, score in 300..850)
\* make_loan_decision returns the outcome of the first rule that matches, in
\* the order (1) ratio < 0.30 and score >= 650: Approved, (2) score >= 650 and
\* ratio < 0.35: ConditionalApproval, (3) ratio < 0.30 and score >= 620:
\* ConditionalApproval, (4) Denied; ratio 0.20 with score 700 is Approved,
\* {income 62000, debt 22000, score 710} is Denied, and the outcome is always
\* one of the three.
C1_FirstMatchingRule ==
    Done("make_loan_decision") =>
        LET a == last.args[1]
            below30 == 100 * a.debt < 30 * a.income
            below35 == 100 * a.debt < 35 * a.income
            expected ==
                IF below30 /\ a.credit_score >= 650 THEN APPROVED
                ELSE IF a.credit_score >= 650 /\ below35 THEN CONDITIONAL_APPROVAL
                ELSE IF below30 /\ a.credit_score >= 620 THEN CONDITIONAL_APPROVAL
                ELSE DENIED
        IN  (a.income > 0 /\ a.debt >= 0 /\ a.credit_score \in 300..850) =>
                /\ last.result.ok
                /\ last.result.val \in DecisionType
                /\ last.result.val = expected
                /\ (5 * a.debt = a.income /\ a.credit_score = 700)
                       => last.result.val = APPROVED
                /\ (a.income = 62000 /\ a.debt = 22000 /\ a.credit_score = 710)
                       => last.result.val = DENIED

\* ratio 0.20 and score 700 (rules 1, 2 and 3 all match) has been decided
C1_Witness ==
    /\ Done("make_loan_decision")
    /\ last.args[1].income = 100000
    /\ last.args[1].debt = 20000
    /\ last.args[1].credit_score = 700
    /\ last.result = Ok(APPROVED)

\* C2: for every integer score in 300..850 get_credit_score_band returns
\* exactly one band: Poor for 300..579, Fair for 580..669, Good for 670..739,
\* Very Good for 740..799, Excellent for 800..850; exactly one range of the
\* table holds the score, so the lookup never ends in "categorization failed".
C2_BandsPartition ==
    Done("get_credit_score_band") =>
        LET score == last.args[1]
            expected ==
                IF score <= 579 THEN POOR
                ELSE IF score <= 669 THEN FAIR
                ELSE IF score <= 739 THEN GOOD
                ELSE IF score <= 799 THEN VERY_GOOD
                ELSE EXCELLENT
            holding == { i \in 1..Len(CREDIT_SCORE_BANDS) :
                           /\ CREDIT_SCORE_BANDS[i].min_score <= score
                           /\ score <= CREDIT_SCORE_BANDS[i].max_score }
        IN  score \in 300..850 =>
                /\ last.result = Ok(expected)
                /\ Cardinality(holding) = 1

\* the first score of the Fair range has been categorized
C2_Witness ==
    /\ Done("get_credit_score_band")
    /\ last.args[1] = 580
    /\ last.result = Ok(FAIR)

\* C5: calculate_debt_to_income_ratio raises exactly when income <= 0 or
\* debt < 0; otherwise it returns the non-negative value debt/income, not
\* clamped (a ratio above 1 is returned as it is).
C5_RatioExact ==
    Done("calculate_debt_to_income_ratio") =>
        LET income == last.args[1]
            debt == last.args[2]
        IN  /\ ~last.result.ok <=> (income <= 0 \/ debt < 0)
            /\ ~last.result.ok => last.result.exc = "ValueError"
            /\ last.result.ok =>
                   /\ last.result.val.den > 0
                   /\ last.result.val.num >= 0
                   /\ income % last.result.val.den = 0
                   /\ debt = last.result.val.num * (income \div last.result.val.den)

\* a debt above the income has given a ratio above 1
C5_Witness ==
    /\ Done("calculate_debt_to_income_ratio")
    /\ last.args = <<100000, 150000>>
    /\ last.result.ok
    /\ last.result.val.num > last.result.val.den

\* C10: for an applicant with an age and any outcome, detect_potential_bias
\* returns, in this order: the age flag iff age < 35 and the outcome is Denied;
\* the income flag iff income < 50000 and the outcome is Denied; the credit
\* score advisory iff 580 <= score < 650, whatever the outcome; the escalation
\* flag iff the outcome is Denied and both the age and the income flag were
\* emitted.  {income 38000, score 580, age 29} Denied carries the age, income
\* and escalation flags.
C10_BiasFlags ==
    Done("detect_potential_bias") =>
        LET a == last.args[1]
            denied == last.args[2] = DENIED
            age_flag == a.age < 35 /\ denied
            income_flag == a.income < 50000 /\ denied
            advisory == 580 <= a.credit_score /\ a.credit_score < 650
            escalation == denied /\ age_flag /\ income_flag
            expected ==
                (IF age_flag THEN <<AGE_BIAS_RISK>> ELSE <<>>)
                \o (IF income_flag THEN <<INCOME_BIAS_RISK>> ELSE <<>>)
                \o (IF advisory THEN <<CREDIT_SCORE_LIMITATION>> ELSE <<>>)
                \o (IF escalation THEN <<MULTIPLE_BIAS_INDICATORS>> ELSE <<>>)
            flags == last.result.val
        IN  "age" \in a.fields =>
                /\ flags = expected
                /\ (a.income = 38000 /\ a.credit_score = 580 /\ a.age = 29 /\ denied)
                       => { AGE_BIAS_RISK, INCOME_BIAS_RISK, MULTIPLE_BIAS_INDICATORS }
                              \subseteq { flags[i] : i \in 1..Len(flags) }

\* a denial of a young applicant with a high income and a score of 580: the
\* age flag and the advisory, and no escalation
C10_Witness ==
    /\ Done("detect_potential_bias")
    /\ last.args[2] = DENIED
    /\ "age" \in last.args[1].fields
    /\ last.args[1].age = 29
    /\ last.args[1].income = 50000
    /\ last.args[1].credit_score = 580
    /\ last.result.val = <<AGE_BIAS_RISK, CREDIT_SCORE_LIMITATION>>

----------------------------------------------------------------------------
(* Properties of the evaluator and its log, under Spec *)

\* what the claims call an applicant with invalid values, and the cause
\* the first failing check gives
InvalidValues(a) ==
    a.income <= 0 \/ a.debt < 0 \/ a.credit_score < 300 \/ a.credit_score > 850

CauseOf(a) ==
    IF a.income <= 0 THEN "Income must be positive"
    ELSE IF a.debt < 0 THEN "Debt cannot be negative"
    ELSE "Credit score must be between 300 and 850"

\* the entries the latest call has added to the log
Added == SubSeq(decisions_log, Len(last.pre) + 1, Len(decisions_log))

\* the distinct elements of a sequence in the order of their first occurrence
RECURSIVE FirstSeen(_)
FirstSeen(seq) ==
    IF seq = <<>> THEN <<>>
    ELSE LET front == FirstSeen(SubSeq(seq, 1, Len(seq) - 1))
             x == seq[Len(seq)]
         IN  IF \E i \in 1..Len(front) : front[i] = x THEN front
             ELSE Append(front, x)

\* C3: evaluate_applicant appends exactly one LoanDecision per successful
\* evaluation and returns that record; after any sequence of evaluations,
\* batches and audit reports the log is the sequence of the decisions of the
\* successful evaluations, in their order, and every call leaves the entries
\* that were in the log before it unchanged and in place.
C3_LogIsEvaluationHistory ==
    /\ decisions_log = evaluated
    /\ Len(last.pre) <= Len(decisions_log)
    /\ SubSeq(decisions_log, 1, Len(last.pre)) = last.pre
    /\ (last.op = "evaluate_applicant" /\ last.result.ok)
           => decisions_log = Append(last.pre, last.result.val)
    /\ (last.op = "process_applicant_batch" /\ last.result.ok)
           => decisions_log = last.pre \o last.result.val
    /\ last.op = "generate_audit_report" => decisions_log = last.pre

\* a successful evaluation on a log that already held two decisions
C3_Witness ==
    /\ last.op = "evaluate_applicant"
    /\ last.result.ok
    /\ Len(last.pre) = 2
    /\ Len(decisions_log) = 3
    /\ decisions_log[3] = last.result.val

\* C4: evaluating one applicant whose income is <= 0, whose debt is < 0 or
\* whose score is outside 300..850 always raises the wrapping error, which
\* carries the applicant's name and the message of the underlying error; no
\* decision is returned or logged and the underlying error never escapes bare.
C4_InvalidApplicantWrapped ==
    (last.op = "evaluate_applicant" /\ last.args[1].fields = AllFields
         /\ InvalidValues(last.args[1])) =>
        /\ ~last.result.ok
        /\ last.result.exc = "ValueError"
        /\ last.result.msg = << "Error evaluating applicant ", last.args[1].name,
                                ": ", CauseOf(last.args[1]) >>
        /\ decisions_log = last.pre

\* an applicant with a score above 850 has been rejected
C4_Witness ==
    /\ last.op = "evaluate_applicant"
    /\ last.args[1].fields = AllFields
    /\ last.args[1].credit_score = 851
    /\ last.args[1].income > 0
    /\ last.args[1].debt >= 0
    /\ ~last.result.ok
    /\ last.result.msg[2] = "Ivy"

\* C6: the decisions a batch adds to the log, and the decisions it returns,
\* are in the order of their applicants in the input, whether or not an
\* applicant of the batch is invalid.
C6_BatchKeepsInputOrder ==
    last.op = "process_applicant_batch" =>
        LET input == last.args[1]
            InInputOrder(decisions) ==
                \E f \in [1..Len(decisions) -> 1..Len(input)] :
                    /\ \A i, j \in 1..Len(decisions) : i < j => f[i] < f[j]
                    /\ \A i \in 1..Len(decisions) :
                           /\ decisions[i].applicant_name = input[f[i]].name
                           /\ BuildDecision(input[f[i]]) = Ok(decisions[i])
        IN  /\ SubSeq(decisions_log, 1, Len(last.pre)) = last.pre
            /\ InInputOrder(Added)
            /\ last.result.ok => InInputOrder(last.result.val)

\* a batch of two different valid applicants followed by an invalid one
C6_Witness ==
    /\ last.op = "process_applicant_batch"
    /\ Len(last.args[1]) = 3
    /\ last.args[1][1].name = "Carol"
    /\ last.args[1][2].name = "Dave"
    /\ InvalidValues(last.args[1][3])
    /\ Len(Added) = 2
    /\ Added[1].applicant_name = "Carol"
    /\ Added[2].applicant_name = "Dave"

\* C7: a batch is never silently truncated: process_applicant_batch returns
\* one result per input applicant, or it raises an error that names the first
\* invalid applicant and gives the cause; it never returns a shorter sequence.
C7_BatchNeverTruncated ==
    last.op = "process_applicant_batch" =>
        LET input == last.args[1]
        IN  \/ /\ last.result.ok
               /\ Len(last.result.val) = Len(input)
               /\ \A i \in 1..Len(input) : ~InvalidValues(input[i])
            \/ /\ ~last.result.ok
               /\ \E k \in 1..Len(input) :
                      /\ InvalidValues(input[k])
                      /\ \A i \in 1..(k - 1) : ~InvalidValues(input[i])
                      /\ last.result.msg = << "Error evaluating applicant ",
                                              input[k].name, ": ", CauseOf(input[k]) >>

\* a batch with an invalid applicant between two valid ones has raised
C7_Witness ==
    /\ last.op = "process_applicant_batch"
    /\ Len(last.args[1]) = 3
    /\ ~InvalidValues(last.args[1][1])
    /\ InvalidValues(last.args[1][2])
    /\ ~InvalidValues(last.args[1][3])
    /\ ~last.result.ok
    /\ last.result.msg[2] = last.args[1][2].name

\* C8: generate_audit_report on an empty log returns the no-decisions sentinel
\* and nothing else; on a log of N >= 1 decisions the counts per outcome sum to
\* N and the count of each outcome is the number of log entries with it.
C8_OutcomeCounts ==
    last.op = "generate_audit_report" =>
        LET report == last.result.val
            summary == report.decision_summary
            Reported(outcome) ==
                IF \E i \in 1..Len(summary) : summary[i].key = outcome
                THEN summary[CHOOSE i \in 1..Len(summary) :
                                 summary[i].key = outcome].count
                ELSE 0
            Logged(outcome) ==
                Cardinality({ i \in 1..Len(decisions_log) :
                                decisions_log[i].decision = outcome })
        IN  /\ decisions_log = <<>> =>
                   report = [text |-> "No decisions recorded for audit.",
                             decision_summary |-> <<>>, bias_section |-> FALSE,
                             bias_total |-> 0, bias_lines |-> <<>>]
            /\ decisions_log # <<>> =>
                   /\ report.text # "No decisions recorded for audit."
                   /\ \A i, j \in 1..Len(summary) :
                          /\ summary[i].key \in DecisionType
                          /\ i # j => summary[i].key # summary[j].key
                   /\ \A outcome \in DecisionType : Reported(outcome) = Logged(outcome)
                   /\ Reported(APPROVED) + Reported(CONDITIONAL_APPROVAL)
                          + Reported(DENIED) = Len(evaluated)

\* a report on a log of three decisions, two of them with the same outcome
C8_Witness ==
    /\ last.op = "generate_audit_report"
    /\ Len(decisions_log) = 3
    /\ Len(last.result.val.decision_summary) = 2
    /\ last.result.val.decision_summary[1].count = 2

\* C9: in the audit report the outcome histogram and the bias flag histogram
\* both list their entries in the order in which each outcome, each distinct
\* flag, was first met in the log, and the count of a flag is the number of
\* its occurrences over all logged decisions.
C9_FirstSeenOrder ==
    (last.op = "generate_audit_report" /\ decisions_log # <<>>) =>
        LET report == last.result.val
            outcomes == [i \in 1..Len(decisions_log) |-> decisions_log[i].decision]
            flags == CollectBiasFlags(decisions_log, 1, <<>>)
        IN  /\ [i \in 1..Len(report.decision_summary) |->
                   report.decision_summary[i].key] = FirstSeen(outcomes)
            /\ [i \in 1..Len(report.bias_lines) |->
                   report.bias_lines[i].key] = FirstSeen(flags)
            /\ \A i \in 1..Len(report.bias_lines) :
                   report.bias_lines[i].count = Count(flags, report.bias_lines[i].key)

\* the latest call is a single evaluation of the dataset's second applicant
BobEvaluated ==
    /\ last.op = "evaluate_applicant"
    /\ last.args[1].fields = AllFields
    /\ last.args[1].income = 45000
    /\ last.args[1].debt = 18000
    /\ last.args[1].credit_score = 640

\* C11 as stated: evaluating {income 45000, debt 18000, score 640} gives
\* ratio 0.40 and Denied, and the risk factors include the "extremely high"
\* debt burden factor.
C11_ExtremelyHighAtForty ==
    BobEvaluated =>
        /\ last.result.ok
        /\ last.result.val.debt_to_income_ratio = [num |-> 2, den |-> 5]
        /\ last.result.val.decision = DENIED
        /\ \E i \in 1..Len(last.result.val.risk_factors) :
               last.result.val.risk_factors[i].text =
                   "Extremely high debt burden may impact repayment capacity"

\* C11 as amended: evaluating {income 45000, debt 18000, score 640} gives
\* ratio 0.40 and Denied; the risk factors are the high ratio factor (40.0%
\* over 30%) and the score below minimum factor and no other: a ratio of
\* exactly 0.40 does not exceed 0.40, so there is no "extremely high" factor.
C11_FortyIsNotAboveForty ==
    BobEvaluated =>
        /\ last.result.ok
        /\ last.result.val.debt_to_income_ratio = [num |-> 2, den |-> 5]
        /\ last.result.val.decision = DENIED
        /\ last.result.val.risk_factors =
               << RiskFactor("High debt-to-income ratio", <<400, 30>>),
                  RiskFactor("Credit score below minimum", <<640, 650>>) >>

\* the applicant has been evaluated and denied
C11_Witness ==
    /\ BobEvaluated
    /\ last.result.ok
    /\ last.result.val.applicant_name = "Bob"
    /\ last.result.val.decision = DENIED
    /\ decisions_log # last.pre

\* C13: assess_risk_factors makes its four checks independently of each
\* other and returns, in this order: the high ratio factor iff ratio > 0.30,
\* the below minimum factor iff score < 650, the poor credit factor iff the
\* band is Poor, the extremely high factor iff ratio > 0.40; the result is a
\* function of the ratio, the score and the band alone (make_loan_decision,
\* for its part, is the function of ratio and score of C1).
C13_RiskFactorsIndependent ==
    Done("assess_risk_factors") =>
        LET score == last.args[1].credit_score
            ratio == last.args[2]
            band == last.args[3]
            above30 == 10 * ratio.num > 3 * ratio.den
            above40 == 5 * ratio.num > 2 * ratio.den
            expected ==
                (IF above30 THEN <<"High debt-to-income ratio">> ELSE <<>>)
                \o (IF score < 650 THEN <<"Credit score below minimum">> ELSE <<>>)
                \o (IF band = POOR
                    THEN <<"Poor credit history indicates elevated default risk">>
                    ELSE <<>>)
                \o (IF above40
                    THEN <<"Extremely high debt burden may impact repayment capacity">>
                    ELSE <<>>)
            factors == last.result.val
        IN  /\ [i \in 1..Len(factors) |-> factors[i].text] = expected
            /\ \A i \in 1..Len(factors) :
                   factors[i].text = "Credit score below minimum"
                       => factors[i].values = <<score, 650>>

\* all four factors at once: ratio 1.5, score 579, band Poor
C13_Witness ==
    /\ Done("assess_risk_factors")
    /\ last.args[2] = [num |-> 3, den |-> 2]
    /\ last.args[1].credit_score = 579
    /\ last.args[3] = POOR
    /\ Len(last.result.val) = 4

\* C14: a failed evaluate_applicant leaves the log exactly as it was: whatever
\* the cause (invalid income, debt or score, or a missing key), no record is
\* appended for the applicant and no record of the log is changed or removed.
C14_FailedEvaluationKeepsLog ==
    (last.op = "evaluate_applicant" /\ ~last.result.ok) =>
        /\ decisions_log = last.pre
        /\ evaluated = last.pre

\* an applicant without a credit score has failed on a log of two decisions
C14_Witness ==
    /\ last.op = "evaluate_applicant"
    /\ "credit_score" \notin last.args[1].fields
    /\ ~last.result.ok
    /\ last.result.msg = <<"Error evaluating applicant ", "Bob", ": ",
                           "'", "credit_score", "'">>
    /\ Len(last.pre) = 2
    /\ decisions_log = last.pre

\* C15: in every LoanDecision that evaluate_applicant produces, a Denied
\* decision has at least one risk factor, so that its explanation lists them
\* and is never the "Multiple risk factors identified" fallback, and an
\* Approved decision has no risk factor.
C15_OutcomeMatchesRiskFactors ==
    (Done("evaluate_applicant") /\ last.result.ok) =>
        LET d == last.result.val
        IN  /\ decisions_log = <<d>>
            /\ d.decision = DENIED =>
                   /\ d.risk_factors # <<>>
                   /\ d.explanation.risk_summary = d.risk_factors
                   /\ \A i \in 1..Len(d.explanation.risk_summary) :
                          d.explanation.risk_summary[i].text
                              # "Multiple risk factors identified"
            /\ d.decision = APPROVED => d.risk_factors = <<>>

\* a denial at a ratio of exactly 0.35 with a score of 700: the high ratio
\* factor is its only risk factor
C15_Witness ==
    /\ Done("evaluate_applicant")
    /\ last.result.ok
    /\ last.result.val.debt_to_income_ratio = [num |-> 7, den |-> 20]
    /\ last.args[1].credit_score = 700
    /\ last.result.val.decision = DENIED
    /\ Len(last.result.val.risk_factors) = 1

\* C17: an applicant without an age is evaluated successfully and the bias
\* detector takes the age as 0: the bias flags are those of the same applicant
\* aged 0, so every Denied applicant without an age has the age flag, and the
\* escalation flag too when the income is below 50000; outcome, ratio, band
\* and risk factors are those of the same applicant with any age.
C17_MissingAgeIsZero ==
    (Done("evaluate_applicant") /\ last.args[1].fields = AllFields \ {"age"}
         /\ ~InvalidValues(last.args[1])) =>
        LET a == last.args[1]
            d == last.result.val
            Aged(age) == BuildDecision([a EXCEPT !.age = age, !.fields = AllFields])
            Has(flag) == \E i \in 1..Len(d.bias_flags) : d.bias_flags[i] = flag
        IN  /\ last.result.ok
            /\ d.bias_flags = Aged(0).val.bias_flags
            /\ Has(AGE_BIAS_RISK) <=> d.decision = DENIED
            /\ (d.decision = DENIED /\ a.income < 50000) => Has(MULTIPLE_BIAS_INDICATORS)
            /\ \A age \in Ages :
                   /\ Aged(age).ok
                   /\ Aged(age).val.decision = d.decision
                   /\ Aged(age).val.debt_to_income_ratio = d.debt_to_income_ratio
                   /\ Aged(age).val.credit_score_band = d.credit_score_band
                   /\ Aged(age).val.risk_factors = d.risk_factors

\* an applicant without an age, with an income below 50000 and a score of
\* 700, was denied with the age, income and escalation flags
C17_Witness ==
    /\ Done("evaluate_applicant")
    /\ "age" \notin last.args[1].fields
    /\ last.args[1].income = 45000
    /\ last.args[1].credit_score = 700
    /\ last.result.ok
    /\ last.result.val.decision = DENIED
    /\ last.result.val.bias_flags =
           <<AGE_BIAS_RISK, INCOME_BIAS_RISK, MULTIPLE_BIAS_INDICATORS>>

\* C16: when process_applicant_batch fails at input position k (0-based, the
\* first applicant that fails), the log has grown by exactly the k decisions
\* of the applicants before it, in input order; no later applicant is
\* evaluated or logged; and the call raises, so that the caller is returned
\* none of the k decisions the log now holds.
C16_FailedBatchKeepsPrefix ==
    (last.op = "process_applicant_batch" /\ ~last.result.ok) =>
        LET input == last.args[1]
        IN  \E k \in 0..(Len(input) - 1) :
                /\ \A i \in 1..k : BuildDecision(input[i]).ok
                /\ ~BuildDecision(input[k + 1]).ok
                /\ Len(Added) = k
                /\ \A i \in 1..k : Ok(Added[i]) = BuildDecision(input[i])
                /\ decisions_log = last.pre \o Added
                /\ evaluated = decisions_log
                /\ last.result.msg[2] = input[k + 1].name
                /\ "val" \notin DOMAIN last.result

\* a batch that failed at its second applicant, with a valid third one: the
\* first decision alone is logged
C16_Witness ==
    /\ last.op = "process_applicant_batch"
    /\ ~last.result.ok
    /\ Len(last.args[1]) = 3
    /\ last.args[1][1].name = "Dave"
    /\ last.args[1][2].name = "Ivy"
    /\ last.args[1][3].name = "Carol"
    /\ Len(Added) = 1
    /\ Added[1].applicant_name = "Dave"

----------------------------------------------------------------------------
(* Concurrent callers, under SpecConc *)

====
